---- MODULE Spec2Model ----
(***************************************************************************)
(* Model of lib/LineEditor/LineEditor.cpp: the completion resolver         *)
(* (ListCompleterConcept), the UTF-8 length function real_len, the         *)
(* highlighter hook_color, the two backend adapters (libedit, replxx) and  *)
(* readLine.  Strings are sequences of bytes (0..255).                     *)
(***************************************************************************)
EXTENDS Integers, Sequences, FiniteSets, TLC

\* ------------------------------------------------------------------ bounds
MaxComps == 3
MaxChars == 2
MaxCtx == 5
MaxBuf == 3
MaxHist == 2

\* ------------------------------------------------------- byte-string basics
Min(a, b) == IF a < b THEN a ELSE b

Drop(s, n) == SubSeq(s, n + 1, Len(s))

Take(s, n) == SubSeq(s, 1, n)

RECURSIVE Flatten(_)
Flatten(ss) == IF ss = << >> THEN << >> ELSE Head(ss) \o Flatten(Tail(ss))

RECURSIVE BitAnd(_, _)
BitAnd(x, y) ==
  IF x = 0 \/ y = 0 THEN 0
  ELSE (x % 2) * (y % 2) + 2 * BitAnd(x \div 2, y \div 2)

\* bytes the source names
ChComma == 44
ChQuote == 34
ChParen == 40
ChCloseParen == 41
ChCtrlB == 2
ChCtrlE == 5
ChTab == 9
ChNL == 10
ChCR == 13

\* well-formed characters used as inputs: m, 1, U+00E9, U+00E8,
\* U+2A69, U+29A69
UM == << 109 >>
UOne == << 49 >>
UEAcute == << 195, 169 >>
UEGrave == << 195, 168 >>
UThree == << 226, 169, 169 >>
UFour == << 240, 169, 169, 169 >>

\* sequences over S of length at most n
SeqUpTo(S, n) == UNION { [1..k -> S] : k \in 0..n }

\* ------------------------------------------------------------------ real_len
m4 == 128 + 64 + 32 + 16
m3 == 128 + 64 + 32
m2 == 128 + 64

\* faulty variant: each multi-byte skip one byte too long
lead_skip_mut(c) ==
  IF BitAnd(c, m4) = m4 THEN 4
  ELSE IF BitAnd(c, m3) = m3 THEN 3
  ELSE IF BitAnd(c, m2) = m2 THEN 2
  ELSE 0

\* the amount added to i inside the loop body for leading byte c
lead_skip(c) ==
  IF BitAnd(c, m4) = m4 THEN 3
  ELSE IF BitAnd(c, m3) = m3 THEN 2
  ELSE IF BitAnd(c, m2) = m2 THEN 1
  ELSE 0

RECURSIVE real_len_loop(_, _, _)
real_len_loop(s, i, len) ==
  IF i < Len(s)
  THEN real_len_loop(s, i + lead_skip(s[i + 1]) + 1, len + 1)
  ELSE len

real_len(s) == real_len_loop(s, 0, 0)

\* ------------------------------------------------- independent UTF-8 decoding
IsCont(b) == b >= 128 /\ b < 192

WidthOf(b) ==
  IF b < 128 THEN 1
  ELSE IF b >= 192 /\ b < 224 THEN 2
  ELSE IF b >= 224 /\ b < 240 THEN 3
  ELSE IF b >= 240 /\ b < 248 THEN 4
  ELSE 0

\* the byte offsets (0-based) at which a character of s starts, or {-1} in it
\* when s is not well formed
RECURSIVE CharStartsFrom(_, _)
CharStartsFrom(s, off) ==
  IF off >= Len(s) THEN {}
  ELSE LET w == WidthOf(s[off + 1]) IN
       IF w = 0 \/ off + w > Len(s)
          \/ \E k \in 1..(w - 1) : ~IsCont(s[off + 1 + k])
       THEN {-1}
       ELSE {off} \cup CharStartsFrom(s, off + w)

CharStarts(s) == CharStartsFrom(s, 0)

WellFormed(s) == -1 \notin CharStarts(s)

\* a byte offset of s that does not fall inside a multi-byte character
IsBoundary(s, off) == off = Len(s) \/ off \in CharStarts(s)

NumChars(s) == Cardinality(CharStarts(s))

\* byte offset of the character with index i (0-based)
CharStart(s, i) ==
  CHOOSE off \in CharStarts(s) :
    Cardinality({o \in CharStarts(s) : o < off}) = i

\* ===================================================================== state
VARIABLES
  backend,             \* "libedit" or "replxx": HAVE_LIBEDIT at build time
  sa, sb, lenRes, lpc,                      \* real_len on two strings
  Completer, Comps, Action, rpc,            \* getCompletionAction
  context, colors, cpc,                     \* hook_color
  buffer, cursor, pushq, ContinuationOutput, PrevCount, Out,
  req, called, rxOut,                       \* one editing session
  History, Line, Ret, rdpc                  \* readLine

lenVars == << sa, sb, lenRes, lpc >>
resVars == << Completer, Comps, Action, rpc >>
colVars == << context, colors, cpc >>
edVars == << buffer, cursor, pushq, ContinuationOutput, PrevCount, Out,
             req, called, rxOut >>
rdVars == << History, Line, Ret, rdpc >>
vars == << backend, lenVars, resVars, colVars, edVars, rdVars >>

\* ============================================ idle values of the other groups
NoReq == [kind |-> "none", buffer |-> << >>, cursor |-> 0]

NoRet == [has |-> FALSE, str |-> << >>]

LenFrame == UNCHANGED << backend, resVars, colVars, edVars, rdVars >>

ResFrame == UNCHANGED << backend, lenVars, colVars, edVars, rdVars >>

ColFrame == UNCHANGED << backend, lenVars, resVars, edVars, rdVars >>

EdFrame == UNCHANGED << backend, lenVars, colVars, rdVars >>

RdFrame == UNCHANGED << backend, lenVars, resVars, colVars, edVars >>

EdIdle ==
  /\ buffer = << >> /\ cursor = 0 /\ pushq = << >>
  /\ ContinuationOutput = << >> /\ PrevCount = 0 /\ Out = << >>
  /\ req = NoReq /\ called = FALSE
  /\ rxOut = [items |-> << >>, thrown |-> FALSE]

RdIdle == History = << >> /\ Line = << >> /\ Ret = NoRet /\ rdpc = "idle"

\* ============================================================ real_len (C4)
Utf8Chars == { UM, UEAcute, UThree, UFour }

Utf8Strings == { Flatten(cs) : cs \in SeqUpTo(Utf8Chars, MaxChars) }

LenIdle == sa = << >> /\ sb = << >> /\ lenRes = << 0, 0, 0 >> /\ lpc = "idle"

LenInit ==
  /\ sa \in Utf8Strings
  /\ sb \in Utf8Strings
  /\ lenRes = << 0, 0, 0 >>
  /\ lpc = "start"

\* calls real_len on a, on b and on a + b
MeasureLen ==
  /\ lpc = "start"
  /\ lenRes' = << real_len(sa), real_len(sb), real_len(sa \o sb) >>
  /\ lpc' = "done"
  /\ UNCHANGED << sa, sb >>
  /\ LenFrame

\* ============================================= completion resolver (C1, C2)
AK_Insert == "AK_Insert"
AK_ShowCompletions == "AK_ShowCompletions"

RECURSIVE CommonLenLoop(_, _, _, _)
CommonLenLoop(CommonPrefix, TypedText, CommonLen, L) ==
  IF CommonLen # L /\ CommonPrefix[CommonLen + 1] = TypedText[CommonLen + 1]
  THEN CommonLenLoop(CommonPrefix, TypedText, CommonLen + 1, L)
  ELSE CommonLen

RECURSIVE getCommonPrefixLoop(_, _, _)
getCommonPrefixLoop(Cs, I, CommonPrefix) ==
  IF I > Len(Cs) THEN CommonPrefix
  ELSE LET L == Min(Len(CommonPrefix), Len(Cs[I].TypedText))
           CommonLen == CommonLenLoop(CommonPrefix, Cs[I].TypedText, 0, L)
       IN getCommonPrefixLoop(Cs, I + 1, Take(CommonPrefix, CommonLen))

getCommonPrefix(Cs) == getCommonPrefixLoop(Cs, 2, Cs[1].TypedText)

DisplayTexts(Cs) == [i \in 1..Len(Cs) |-> Cs[i].DisplayText]

\* faulty variant: the list shows the typed texts
ShowAction_mut(Cs) ==
  [Kind |-> AK_ShowCompletions, Text |-> << >>,
   Completions |-> [i \in 1..Len(Cs) |-> Cs[i].TypedText]]

\* the AK_ShowCompletions branch of complete
ShowAction(Cs) ==
  [Kind |-> AK_ShowCompletions, Text |-> << >>,
   Completions |-> DisplayTexts(Cs)]

\* complete, given what getCompletions(Buffer, Pos) returned
complete(Cs) ==
  IF Cs = << >>
  THEN [Kind |-> AK_ShowCompletions, Text |-> << >>, Completions |-> << >>]
  ELSE LET CommonPrefix == getCommonPrefix(Cs) IN
       IF CommonPrefix = << >>
       THEN ShowAction(Cs)
       ELSE [Kind |-> AK_Insert, Text |-> CommonPrefix, Completions |-> << >>]

getCompletionAction(hasCompleter, Cs) ==
  IF ~hasCompleter
  THEN [Kind |-> AK_ShowCompletions, Text |-> << >>, Completions |-> << >>]
  ELSE complete(Cs)

TypedTexts == { << >>, UM, UM \o UEAcute, UM \o UEGrave, UEAcute, UEGrave }

ShownTexts == { UM, UOne }

Completions == [TypedText : TypedTexts, DisplayText : ShownTexts]

NoAction == [Kind |-> AK_ShowCompletions, Text |-> << >>, Completions |-> << >>]

ResIdle ==
  Completer = FALSE /\ Comps = << >> /\ Action = NoAction /\ rpc = "idle"

ResInit ==
  /\ Completer \in BOOLEAN
  /\ Comps \in SeqUpTo(Completions, MaxComps)
  /\ ~Completer => Comps = << >>
  /\ Action = NoAction
  /\ rpc = "start"

Resolve ==
  /\ rpc = "start"
  /\ Action' = getCompletionAction(Completer, Comps)
  /\ rpc' = "done"
  /\ UNCHANGED << Completer, Comps >>
  /\ ResFrame

\* ===================================================== hook_color (C3, C5)
DEFAULT == "DEFAULT"
BRIGHTMAGENTA == "BRIGHTMAGENTA"
BLUE == "BLUE"
YELLOW == "YELLOW"

\* regex_color restricted to the rules that can match a string over
\* ColorBytes, in the order of the initializer list:
\*   ^\s*m\b   [0-9]+   ".*?"
regex_color ==
  << [first |-> "cmd_m", second |-> BRIGHTMAGENTA],
     [first |-> "digits", second |-> BLUE],
     [first |-> "dquoted", second |-> YELLOW] >>

IsDigit(b) == b >= 48 /\ b <= 57

IsSpace(b) == b = 32 \/ (b >= 9 /\ b <= 13)

\* \w in the classic locale
IsWord(b) ==
  \/ IsDigit(b)
  \/ (b >= 65 /\ b <= 90)
  \/ (b >= 97 /\ b <= 122)
  \/ b = 95

NoMatch == [found |-> FALSE, start |-> 0, len |-> 0]

\* length of the longest run of \s (of [0-9]) that starts at index from
RECURSIVE SpaceRun(_, _)
SpaceRun(s, from) ==
  IF from <= Len(s) /\ IsSpace(s[from]) THEN 1 + SpaceRun(s, from + 1) ELSE 0

RECURSIVE DigitRun(_, _)
DigitRun(s, from) ==
  IF from <= Len(s) /\ IsDigit(s[from]) THEN 1 + DigitRun(s, from + 1) ELSE 0

\* std::regex_search(str, match, std::regex(pat)): the leftmost match, start
\* being the length of match.prefix() and len the length of match[0]
regex_search(str, pat) ==
  IF pat = "cmd_m"
  THEN LET k == SpaceRun(str, 1) IN
       IF /\ k + 1 <= Len(str)
          /\ str[k + 1] = 109
          /\ (k + 2 > Len(str) \/ ~IsWord(str[k + 2]))
       THEN [found |-> TRUE, start |-> 0, len |-> k + 1]
       ELSE NoMatch
  ELSE IF pat = "digits"
  THEN LET ds == {i \in 1..Len(str) : IsDigit(str[i])} IN
       IF ds = {} THEN NoMatch
       ELSE LET i == CHOOSE x \in ds : \A y \in ds : x <= y IN
            [found |-> TRUE, start |-> i - 1, len |-> DigitRun(str, i)]
  ELSE LET qs == {i \in 1..Len(str) : str[i] = ChQuote} IN
       IF Cardinality(qs) < 2 THEN NoMatch
       ELSE LET i == CHOOSE x \in qs : \A y \in qs : x <= y
                j == CHOOSE x \in qs \ {i} : \A y \in qs \ {i} : x <= y
            IN [found |-> TRUE, start |-> i - 1, len |-> j - i + 1]

\* the for loop over i: colors.at(pos + i) = color; at() throws out_of_range
\* at the first index that is not below colors.size()
Paint(cols, pos, len, color) ==
  [map |-> [j \in 1..Len(cols.map) |->
              IF j - 1 >= pos /\ j - 1 < pos + len THEN color ELSE cols.map[j]],
   thrown |-> len > 0 /\ pos + len > Len(cols.map)]

\* the while loop of hook_color for one rule e
RECURSIVE ColorMatchLoop(_, _, _, _)
ColorMatchLoop(e, str, pos, cols) ==
  LET match == regex_search(str, e.first) IN
  IF ~match.found THEN cols
  ELSE LET prefix == Take(str, match.start)
           c == SubSeq(str, match.start + 1, match.start + match.len)
           pos1 == pos + real_len(prefix)
           len == real_len(c)
           cols1 == Paint(cols, pos1, len, e.second)
       IN IF cols1.thrown THEN cols1
          ELSE ColorMatchLoop(e, Drop(str, match.start + match.len),
                              pos1 + len, cols1)

\* the for loop over Data->regex_color
RECURSIVE ColorRuleLoop(_, _, _)
ColorRuleLoop(ctx, k, cols) ==
  IF k > Len(regex_color) \/ cols.thrown THEN cols
  ELSE ColorRuleLoop(ctx, k + 1, ColorMatchLoop(regex_color[k], ctx, 0, cols))

\* the colour vector handed to the highlighter: one default entry per
\* character of the buffer
ColorsInit(ctx) == [map |-> [j \in 1..real_len(ctx) |-> DEFAULT], thrown |-> FALSE]

\* faulty variant: the rules are applied in reverse order
hook_color_mut(ctx, cols) ==
  LET r(k) == regex_color[Len(regex_color) + 1 - k]
      c1 == ColorMatchLoop(r(1), ctx, 0, cols)
      c2 == ColorMatchLoop(r(2), ctx, 0, c1)
  IN ColorMatchLoop(r(3), ctx, 0, c2)

hook_color(ctx, cols) == ColorRuleLoop(ctx, 1, cols)

ColorBytes == { 109, 49, 34, 32, 195, 169 }

ColIdle == context = << >> /\ colors = ColorsInit(<< >>) /\ cpc = "idle"

ColInit ==
  /\ context \in SeqUpTo(ColorBytes, MaxCtx)
  /\ colors = ColorsInit(context)
  /\ cpc = "start"

Highlight ==
  /\ cpc = "start"
  /\ colors' = hook_color(context, colors)
  /\ cpc' = "done"
  /\ UNCHANGED context
  /\ ColFrame

\* --- what the colour map should be, from the matches in byte coordinates
RECURSIVE MatchIntervals(_, _, _)
MatchIntervals(pat, s, off) ==
  LET m == regex_search(Drop(s, off), pat) IN
  IF ~m.found THEN {}
  ELSE { << off + m.start, off + m.start + m.len >> }
       \cup MatchIntervals(pat, s, off + m.start + m.len)

Covers(s, k, i) ==
  \E iv \in MatchIntervals(regex_color[k].first, s, 0) :
    CharStart(s, i) >= iv[1] /\ CharStart(s, i) < iv[2]

ExpectedColor(s, i) ==
  LET ks == {k \in 1..Len(regex_color) : Covers(s, k, i)} IN
  IF ks = {} THEN DEFAULT
  ELSE regex_color[CHOOSE k \in ks : \A k2 \in ks : k2 <= k].second

\* ======================================== one editing session (C6, C7, C8)
\* Prompt for an empty ProgName: ProgName + "> "
Prompt == << 62, 32 >>

Last(s) == s[Len(s)]

\* the line's byte offset one character before cur
PrevBoundary(buf, cur) ==
  LET bs == {o \in CharStarts(buf) : o < cur} IN
  CHOOSE o \in bs : \A o2 \in bs : o2 <= o

\* ::el_insertstr(EL, Text): the text goes in at the cursor
el_insertstr(buf, cur, text) == Take(buf, cur) \o text \o Drop(buf, cur)

\* faulty variant: the comma is looked for at the front of the context
Suppressed_mut(ctx) == ctx # << >> /\ Head(ctx) = ChComma

\* !context.empty() && context.back() == ','
Suppressed(ctx) == ctx # << >> /\ Last(ctx) = ChComma

\* faulty variant: one Ctrl-B after the closing quote and parenthesis
AppendClosers_mut(Text) ==
  LET t1 == IF Last(Text) = ChQuote
            THEN Text \o << ChQuote, ChCloseParen >> \o << ChCtrlB >>
            ELSE Text
  IN IF Last(t1) = ChParen
     THEN t1 \o << ChCloseParen >> \o << ChCtrlB >>
     ELSE t1

\* the two appends hook_completion makes to a non-empty Action.Text
AppendClosers(Text) ==
  LET t1 == IF Last(Text) = ChQuote
            THEN Text \o << ChQuote, ChCloseParen >> \o << ChCtrlB, ChCtrlB >>
            ELSE Text
  IN IF Last(t1) = ChParen
     THEN t1 \o << ChCloseParen >> \o << ChCtrlB >>
     ELSE t1

\* hook_completion(context, index, user_data), Cs being what getCompletions
\* would return
hook_completion(ctx, index, hasCompleter, Cs) ==
  IF Suppressed(ctx)
  THEN [items |-> << >>, called |-> FALSE, action |-> NoAction]
  ELSE LET A == getCompletionAction(hasCompleter, Cs) IN
       [items |-> IF A.Kind = AK_Insert
                  THEN << Drop(ctx, index)
                          \o (IF A.Text # << >> THEN AppendClosers(A.Text)
                              ELSE A.Text) >>
                  ELSE A.Completions,
        called |-> hasCompleter,
        action |-> A]

\* hook_hint(context, index, color, user_data); item.substr(n) throws
\* out_of_range when n is above the item's size
hook_hint(ctx, index, hasCompleter, Cs) ==
  IF Suppressed(ctx)
  THEN [items |-> << >>, thrown |-> FALSE, called |-> FALSE, action |-> NoAction]
  ELSE LET A == getCompletionAction(hasCompleter, Cs)
           n == Len(ctx) - index
       IN IF A.Kind = AK_Insert
          THEN [items |-> << A.Text >>, thrown |-> FALSE,
                called |-> hasCompleter, action |-> A]
          ELSE IF \E i \in 1..Len(A.Completions) : n > Len(A.Completions[i])
          THEN [items |-> << >>, thrown |-> TRUE,
                called |-> hasCompleter, action |-> A]
          ELSE [items |-> [i \in 1..Len(A.Completions) |->
                             Drop(A.Completions[i], n)],
                thrown |-> FALSE, called |-> hasCompleter, action |-> A]

\* what the completer of the embedding tool may return
cand_m == [TypedText |-> UM, DisplayText |-> UM]

cand_quote == [TypedText |-> << ChQuote >>, DisplayText |-> << ChQuote >>]

cand_paren == [TypedText |-> << ChParen >>, DisplayText |-> << ChParen >>]

cand_empty == [TypedText |-> << >>, DisplayText |-> UOne]

EdCandidates ==
  { << >>, << cand_m >>, << cand_quote >>, << cand_paren >>, << cand_empty >>,
    << cand_m, cand_quote >> }

TypeChars == { UM, << ChComma >>, UEAcute }

EdInit ==
  /\ buffer = << >> /\ cursor = 0 /\ pushq = << >>
  /\ ContinuationOutput = << >> /\ PrevCount = 0 /\ Out = << >>
  /\ req = NoReq /\ called = FALSE
  /\ rxOut = [items |-> << >>, thrown |-> FALSE]
  /\ Completer \in BOOLEAN /\ Comps = << >> /\ Action = NoAction /\ rpc = "idle"

\* the backend inserts a typed character at the cursor
TypeChar ==
  /\ pushq = << >>
  /\ \E c \in TypeChars :
       /\ Len(buffer) + Len(c) <= MaxBuf
       /\ buffer' = Take(buffer, cursor) \o c \o Drop(buffer, cursor)
       /\ cursor' = cursor + Len(c)
  /\ req' = NoReq
  /\ UNCHANGED << pushq, ContinuationOutput, PrevCount, Out, called, rxOut,
                  Completer, Comps, Action, rpc >>
  /\ EdFrame

\* the user moves the cursor one character to the left
CursorLeft ==
  /\ pushq = << >>
  /\ cursor > 0
  /\ cursor' = PrevBoundary(buffer, cursor)
  /\ req' = NoReq
  /\ UNCHANGED << buffer, pushq, ContinuationOutput, PrevCount, Out, called,
                  rxOut, Completer, Comps, Action, rpc >>
  /\ EdFrame

\* ElCompletionFn(EL, ch); q is what is left of the pushed input
ElCompletionFn(q) ==
  IF ContinuationOutput # << >>
  THEN /\ Out' = ContinuationOutput
       /\ pushq' = [i \in 1..PrevCount |-> ChCtrlB] \o q
       /\ ContinuationOutput' = << >>
       /\ UNCHANGED << buffer, cursor, PrevCount, req, called, rxOut,
                       Completer, Comps, Action, rpc >>
  ELSE \E Cs \in EdCandidates :
         LET A == getCompletionAction(Completer, Cs) IN
         /\ Action' = A
         /\ called' = Completer
         /\ req' = [kind |-> "completion", buffer |-> buffer, cursor |-> cursor]
         /\ IF A.Kind = AK_Insert
            THEN /\ buffer' = el_insertstr(buffer, cursor, A.Text)
                 /\ cursor' = cursor + Len(A.Text)
                 /\ pushq' = q
                 /\ UNCHANGED << ContinuationOutput, PrevCount >>
            ELSE IF A.Completions = << >>
            THEN /\ pushq' = q
                 /\ UNCHANGED << buffer, cursor, ContinuationOutput, PrevCount >>
            ELSE /\ pushq' = << ChCtrlE, ChTab >> \o q
                 /\ ContinuationOutput' =
                      << ChNL >>
                      \o Flatten([i \in 1..Len(A.Completions) |->
                                    A.Completions[i] \o << ChNL >>])
                      \o Prompt \o buffer
                 /\ PrevCount' = Len(buffer) - cursor
                 /\ UNCHANGED << buffer, cursor >>
         /\ UNCHANGED << Out, rxOut, Completer, Comps, rpc >>

\* the user presses tab
ElTab ==
  /\ backend = "libedit"
  /\ pushq = << >>
  /\ Len(buffer) <= MaxBuf
  /\ ElCompletionFn(<< >>)
  /\ EdFrame

\* libedit reads a pushed tab
ElPushedTab ==
  /\ backend = "libedit"
  /\ pushq # << >> /\ Head(pushq) = ChTab
  /\ ElCompletionFn(Tail(pushq))
  /\ EdFrame

\* libedit reads a pushed Ctrl-E: the cursor goes to the end of the line
ElPushedEnd ==
  /\ backend = "libedit"
  /\ pushq # << >> /\ Head(pushq) = ChCtrlE
  /\ pushq' = Tail(pushq)
  /\ cursor' = Len(buffer)
  /\ UNCHANGED << buffer, ContinuationOutput, PrevCount, Out, req, called,
                  rxOut, Completer, Comps, Action, rpc >>
  /\ EdFrame

\* libedit reads a pushed Ctrl-B: the cursor goes back one character, and
\* stays where it is at the start of the line
ElPushedPrev ==
  /\ backend = "libedit"
  /\ pushq # << >> /\ Head(pushq) = ChCtrlB
  /\ pushq' = Tail(pushq)
  /\ cursor' = IF cursor > 0 THEN PrevBoundary(buffer, cursor) ELSE cursor
  /\ UNCHANGED << buffer, ContinuationOutput, PrevCount, Out, req, called,
                  rxOut, Completer, Comps, Action, rpc >>
  /\ EdFrame

\* replxx asks for completions of the text before the cursor and applies
\* what hook_completion returns: an Insert replaces the word that starts at
\* index by the completion, a list leaves the line as it is
RxTab ==
  /\ backend = "replxx"
  /\ Len(buffer) <= MaxBuf
  /\ \E Cs \in EdCandidates :
     \E index \in {o \in 0..cursor : IsBoundary(Take(buffer, cursor), o)} :
       LET ctx == Take(buffer, cursor)
           r == hook_completion(ctx, index, Completer, Cs)
       IN /\ rxOut' = [items |-> r.items, thrown |-> FALSE]
          /\ called' = r.called
          /\ Action' = r.action
          /\ req' = [kind |-> "completion", buffer |-> buffer, cursor |-> cursor]
          /\ IF ~Suppressed(ctx) /\ r.action.Kind = AK_Insert
             THEN /\ buffer' = Take(buffer, index) \o r.items[1]
                                 \o Drop(buffer, cursor)
                  /\ cursor' = index + Len(r.items[1])
             ELSE UNCHANGED << buffer, cursor >>
  /\ UNCHANGED << pushq, ContinuationOutput, PrevCount, Out, Completer, Comps,
                  rpc >>
  /\ EdFrame

\* replxx asks for hints while it redraws the line
RxHint ==
  /\ backend = "replxx"
  /\ Len(buffer) <= MaxBuf
  /\ \E Cs \in EdCandidates :
     \E index \in {o \in 0..cursor : IsBoundary(Take(buffer, cursor), o)} :
       LET r == hook_hint(Take(buffer, cursor), index, Completer, Cs) IN
       /\ rxOut' = [items |-> r.items, thrown |-> r.thrown]
       /\ called' = r.called
       /\ Action' = r.action
       /\ req' = [kind |-> "hint", buffer |-> buffer, cursor |-> cursor]
  /\ UNCHANGED << buffer, cursor, pushq, ContinuationOutput, PrevCount, Out,
                  Completer, Comps, rpc >>
  /\ EdFrame

\* ================================================== readLine (C9, C10)
\* history with the unique flag set and a maximum size: a line equal to the
\* newest entry is not entered again, the oldest entry makes room
history_enter(h, line) ==
  IF h # << >> /\ Last(h) = line THEN h
  ELSE IF Len(h) >= MaxHist THEN Tail(h) \o << line >>
  ELSE h \o << line >>

\* the while loop that strips newlines off the end of the string
RECURSIVE StripLen(_, _)
StripLen(L, LineLen) ==
  IF LineLen > 0 /\ (L[LineLen] = ChNL \/ L[LineLen] = ChCR)
  THEN StripLen(L, LineLen - 1)
  ELSE LineLen

\* what el_gets hands back: the text and its line terminator, the text
\* alone when the input ends without one, nothing at end of input
ElLines ==
  { b \o t : b \in { << >>, UM, UOne, UEAcute },
             t \in { << ChNL >>, << ChCR, ChNL >>, << >> } }

\* what Replxx::input hands back: the text without its line terminator
RxLines == { << >>, UM, UOne, UEAcute, UM \o UOne }

RdInit == History = << >> /\ Line = << >> /\ Ret = NoRet /\ rdpc = "start"

\* readLine of the libedit adapter; a null Line is the empty Line here
ReadLineLibedit ==
  /\ backend = "libedit"
  /\ \E L \in ElLines :
       /\ Line' = L
       /\ IF Len(L) = 0
          THEN /\ Ret' = NoRet
               /\ rdpc' = "eof"
               /\ UNCHANGED History
          ELSE LET LineLen == StripLen(L, Len(L)) IN
               /\ History' = IF LineLen > 0 THEN history_enter(History, L)
                             ELSE History
               /\ rdpc' = IF LineLen > 0 THEN "entered" ELSE "skipped"
               /\ Ret' = [has |-> TRUE, str |-> Take(L, LineLen)]
  /\ RdFrame

\* readLine of the replxx adapter when input returns a string
ReadLineReplxx ==
  /\ backend = "replxx"
  /\ \E input \in RxLines :
       /\ Line' = input
       /\ History' = history_enter(History, input)
       /\ rdpc' = "entered"
       /\ Ret' = [has |-> TRUE, str |-> input]
  /\ RdFrame

\* readLine of the replxx adapter when input returns nullptr
ReadLineReplxxEof ==
  /\ backend = "replxx"
  /\ Line' = << >>
  /\ Ret' = NoRet
  /\ rdpc' = "eof"
  /\ UNCHANGED History
  /\ RdFrame

\* ============================================================ specifications
InitLen ==
  backend = "replxx" /\ LenInit /\ ResIdle /\ ColIdle /\ EdIdle /\ RdIdle

LenNext == MeasureLen

SpecLen == InitLen /\ [][LenNext]_vars

InitResolve ==
  /\ backend \in {"libedit", "replxx"}
  /\ ResInit /\ LenIdle /\ ColIdle /\ EdIdle /\ RdIdle

ResNext == Resolve

SpecResolve == InitResolve /\ [][ResNext]_vars

InitColor ==
  backend = "replxx" /\ ColInit /\ LenIdle /\ ResIdle /\ EdIdle /\ RdIdle

ColNext == Highlight

SpecColor == InitColor /\ [][ColNext]_vars

InitEdit ==
  /\ backend \in {"libedit", "replxx"}
  /\ EdInit /\ LenIdle /\ ColIdle /\ RdIdle

EdNext ==
  \/ TypeChar
  \/ CursorLeft
  \/ ElTab
  \/ ElPushedTab
  \/ ElPushedEnd
  \/ ElPushedPrev
  \/ RxTab
  \/ RxHint

SpecEdit == InitEdit /\ [][EdNext]_vars

InitRead ==
  /\ backend \in {"libedit", "replxx"}
  /\ RdInit /\ LenIdle /\ ResIdle /\ ColIdle /\ EdIdle

RdNext ==
  \/ ReadLineLibedit
  \/ ReadLineReplxx
  \/ ReadLineReplxxEof

SpecRead == InitRead /\ [][RdNext]_vars

\* ==================================================================== claims

\* the longest common prefix of the typed texts that ends on a character
\* boundary: the common prefix compared over whole Unicode characters
CharCommonPrefix(Cs) ==
  LET t == Cs[1].TypedText
      ok == {n \in 0..Len(t) :
               /\ IsBoundary(t, n)
               /\ \A i \in 1..Len(Cs) :
                    Len(Cs[i].TypedText) >= n /\ Take(Cs[i].TypedText, n) = Take(t, n)}
  IN Take(t, CHOOSE n \in ok : \A n2 \in ok : n2 <= n)

\* C1: for a non-empty candidate sequence whose typed texts share a non-empty
\* prefix of whole Unicode characters, complete returns Insert with exactly
\* that prefix, so the text never ends inside a multi-byte sequence.
C1_InsertIsCharPrefix ==
  (rpc = "done" /\ Completer /\ Comps # << >> /\ CharCommonPrefix(Comps) # << >>)
    => /\ Action.Kind = AK_Insert
       /\ Action.Text = CharCommonPrefix(Comps)
       /\ WellFormed(Action.Text)

NoCommonPrefix(Cs) ==
  \/ Cs = << >>
  \/ \E i \in 1..Len(Cs) : Cs[i].TypedText = << >>
  \/ \E i, j \in 1..Len(Cs) :
       /\ Cs[i].TypedText # << >> /\ Cs[j].TypedText # << >>
       /\ Cs[i].TypedText[1] # Cs[j].TypedText[1]

C3_LastRuleWins ==
  (cpc = "done" /\ WellFormed(context))
    => /\ ~colors.thrown
       /\ Len(colors.map) = NumChars(context)
       /\ \A i \in 0..(NumChars(context) - 1) :
            colors.map[i + 1] = ExpectedColor(context, i)

\* U+00E9 "1": the digit is matched by [0-9]+ and by ".*?"
C3_Witness ==
  /\ cpc = "done"
  /\ context = << 195, 169, 34, 49, 34 >>
  /\ colors.map = << DEFAULT, YELLOW, YELLOW, YELLOW >>
  /\ Covers(context, 2, 2) /\ Covers(context, 3, 2)

\* C4: real_len is additive under concatenation of valid UTF-8 strings, each
\* character counted once whatever its encoded length.
C4_Additive ==
  lpc = "done"
    => /\ lenRes[3] = lenRes[1] + lenRes[2]
       /\ lenRes[1] = NumChars(sa)
       /\ lenRes[2] = NumChars(sb)

C4_Witness ==
  /\ lpc = "done"
  /\ sa = UEAcute \o UFour
  /\ sb = UThree \o UM
  /\ lenRes = << 2, 2, 4 >>

\* C5: for every buffer, malformed or truncated UTF-8 included, hook_color
\* writes only indices below the size of the colour map: colors.at never
\* throws.
C5_NeverThrows == cpc = "done" => ~colors.thrown

\* what the adapter puts after an inserted text: nothing in the libedit
\* adapter; in the replxx adapter ") and two Ctrl-B after a text that ends in
\* a double quote, ) and one Ctrl-B after a text that ends in (
Closers(b, text) ==
  IF b = "replxx" /\ Last(text) = ChQuote THEN << 34, 41, 2, 2 >>
  ELSE IF b = "replxx" /\ Last(text) = ChParen THEN << 41, 2 >>
  ELSE << >>

InsertDone == req.kind = "completion" /\ called /\ Action.Kind = AK_Insert

\* C6 as stated: after an Insert the buffer is the buffer before the request
\* with exactly the text at the cursor, whatever the text ends in.
C6_InsertExactlyText ==
  InsertDone
    => buffer = Take(req.buffer, req.cursor) \o Action.Text
                  \o Drop(req.buffer, req.cursor)

\* C6 amended: after an Insert the buffer is the buffer before the request
\* with the text, followed by the closers of the adapter, at the cursor; the
\* closers are empty unless the replxx adapter inserts a text ending in a
\* double quote or an opening parenthesis.
C6_InsertTextAndClosers ==
  InsertDone
    => /\ buffer = Take(req.buffer, req.cursor) \o Action.Text
                     \o Closers(backend, Action.Text)
                     \o Drop(req.buffer, req.cursor)
       /\ cursor = req.cursor + Len(Action.Text)
                     + Len(Closers(backend, Action.Text))

C6_Witness ==
  /\ InsertDone
  /\ backend = "replxx"
  /\ Action.Text = << ChQuote >>
  /\ req.buffer = UM \o UEAcute
  /\ req.cursor = 1
  /\ buffer = << 109, 34, 34, 41, 2, 2, 195, 169 >>

CommaRequest ==
  /\ req.kind \in {"completion", "hint"}
  /\ req.cursor > 0
  /\ req.buffer[req.cursor] = ChComma

\* C7 as stated: in every adapter, a completion or hint request with a comma
\* right before the cursor does not invoke getCompletions, returns nothing
\* and leaves the buffer unchanged.
C7_CommaSuppressesEverywhere ==
  CommaRequest
    => ~called /\ rxOut.items = << >> /\ buffer = req.buffer

\* C7 amended: in the replxx adapter, a completion or hint request with a
\* comma right before the cursor does not invoke getCompletions, returns
\* nothing and leaves the buffer unchanged.
C7_CommaSuppressesReplxx ==
  (backend = "replxx" /\ CommaRequest)
    => ~called /\ rxOut.items = << >> /\ ~rxOut.thrown
       /\ buffer = req.buffer /\ cursor = req.cursor

C7_Witness ==
  /\ backend = "replxx"
  /\ Completer
  /\ CommaRequest
  /\ req.kind = "completion"
  /\ req.buffer = << 109, 44, 109 >>
  /\ req.cursor = 2

\* C8: once a non-empty list has been displayed and the pushed input has
\* been read, the buffer and the cursor are what they were when completion
\* was requested, and no continuation output is pending.
C8_ListRestoresLine ==
  (/\ req.kind = "completion" /\ called
   /\ Action.Kind = AK_ShowCompletions /\ Action.Completions # << >>
   /\ ContinuationOutput = << >> /\ pushq = << >>)
    => buffer = req.buffer /\ cursor = req.cursor

\* C9: no entry of the history is the empty line.
C9_NoEmptyHistoryLine == \A i \in 1..Len(History) : History[i] # << >>

EndsInNewline(str) == str # << >> /\ (Last(str) = ChNL \/ Last(str) = ChCR)

\* C10: the returned line and the history entry made for it end in neither
\* newline nor carriage return, and the two are equal.
C10_StrippedEverywhere ==
  Ret.has
    => /\ ~EndsInNewline(Ret.str)
       /\ rdpc = "entered"
            => Last(History) = Ret.str /\ ~EndsInNewline(Last(History))

====
